---- MODULE Spec2Model ----
(***************************************************************************)
(* examples/lambda/example-python-lambda/lambda_function.py                *)
(*                                                                         *)
(* A FastAPI application with three endpoints (health, root, platform)     *)
(* wrapped by Mangum as the Lambda entry point lambda_handler.  One        *)
(* invocation is modelled as the chain of calls the entry point makes:     *)
(*   lambda_handler -> Route -> Validate -> Endpoint -> Respond            *)
(* The endpoints and the PlatformRequest model are translated from the     *)
(* file; routing, body validation and error translation are what           *)
(* FastAPI() (line 13), the route decorators (lines 23, 29, 35), the       *)
(* BaseModel subclass (lines 17-20) and Mangum(app) (line 75) do with      *)
(* their default arguments.                                                *)
(*                                                                         *)
(* Python values: None and str are tagged records, a dict is an ordered    *)
(* sequence of <<key, value>> pairs (dicts keep insertion order, and the   *)
(* serialised body depends on it).                                         *)
(* Not modelled: request headers and query strings (no endpoint reads      *)
(* them; the body is taken to be sent as application/json), base64 event   *)
(* bodies, the content-length response header, the allow header of a 405   *)
(* answer, HEAD/OPTIONS requests, and the bodies of the documentation      *)
(* routes other than /docs (they are routes of the table all the same).    *)
(***************************************************************************)
EXTENDS Naturals, Sequences, FiniteSets, TLC

VARIABLES
    pc,        \* position of the current invocation in the call chain
    inv,       \* number of invocations this process has started
    event,     \* the inbound event of the current invocation
    match,     \* what the router resolved for it
    request,   \* the PlatformRequest handed to platform()
    invoked,   \* the endpoint function that was called, or "none"
    result,    \* what the endpoint (or the framework in its place) produced
    response,  \* the envelope lambda_handler returns
    log,       \* records emitted through the logging module, oldest first
    ref        \* history: the first completed invocation (event, result kind, envelope)

vars == <<pc, inv, event, match, request, invoked, result, response, log, ref>>

(***************************************************************************)
(* Bounds                                                                  *)
(***************************************************************************)
MaxInvocations == 3

(***************************************************************************)
(* Python values                                                           *)
(***************************************************************************)
None == [t |-> "None", v |-> ""]
Str(s) == [t |-> "str", v |-> s]
Dict(pairs) == [t |-> "dict", v |-> pairs]
List(items) == [t |-> "list", v |-> items]

\* bool(x) for an Optional[str]: None and "" are falsy
Truthy(x) == x.t = "str" /\ x.v # ""

\* d[k] for a dict
Get(d, k) == LET i == CHOOSE j \in 1..Len(d.v) : d.v[j][1] = k IN d.v[i][2]

(***************************************************************************)
(* json.dumps(content, separators=(",", ":")) as the JSON response class   *)
(* renders a body.  The strings of this model hold no character that       *)
(* needs escaping.                                                         *)
(***************************************************************************)
RECURSIVE dumps(_), dumps_members(_), dumps_items(_)
dumps(x) ==
    CASE x.t = "None" -> "null"
      [] x.t = "str"  -> "\"" \o x.v \o "\""
      [] x.t = "dict" -> "{" \o dumps_members(x.v) \o "}"
      [] x.t = "list" -> "[" \o dumps_items(x.v) \o "]"

dumps_members(pairs) ==
    IF pairs = <<>> THEN ""
    ELSE "\"" \o pairs[1][1] \o "\":" \o dumps(pairs[1][2])
         \o (IF Len(pairs) > 1 THEN "," ELSE "") \o dumps_members(Tail(pairs))

dumps_items(items) ==
    IF items = <<>> THEN ""
    ELSE dumps(items[1])
         \o (IF Len(items) > 1 THEN "," ELSE "") \o dumps_items(Tail(items))

(***************************************************************************)
(* Inbound events.  A body is represented by what json.loads makes of it:  *)
(* absent, not parseable, a JSON array, or a JSON object whose three       *)
(* known members are each missing, null or a string.                       *)
(***************************************************************************)
Missing == [t |-> "missing", v |-> ""]
Null == [t |-> "null", v |-> ""]

Names == {"", "Acme"}
Versions == {"", "2.0"}
Descriptions == {"", "x"}

JsonObject(n, v, d) == [t |-> "object", name |-> n, version |-> v, description |-> d]
JsonArray == [t |-> "array", name |-> Missing, version |-> Missing, description |-> Missing]
NoJson == [t |-> "none", name |-> Missing, version |-> Missing, description |-> Missing]

NoBody == [kind |-> "absent", value |-> NoJson]
BadJson == [kind |-> "malformed", value |-> NoJson]
JsonBody(j) == [kind |-> "json", value |-> j]

Objects ==
    { JsonObject(n, v, d) :
        n \in {Missing, Null} \cup {Str(s) : s \in Names},
        v \in {Missing, Null} \cup {Str(s) : s \in Versions},
        d \in {Missing, Null} \cup {Str(s) : s \in Descriptions} }

Bodies == {NoBody, BadJson, JsonBody(JsonArray)} \cup {JsonBody(o) : o \in Objects}

Methods == {"GET", "POST"}
Paths == {"/", "/health", "/platform", "/unknown", "/docs", "/health/"}

Events ==
    { [method |-> m, path |-> p, body |-> NoBody] : m \in Methods, p \in Paths }
    \cup { [method |-> "POST", path |-> "/platform", body |-> b] : b \in Bodies }

NoEvent == [method |-> "", path |-> "", body |-> NoBody]

(***************************************************************************)
(* class PlatformRequest(BaseModel): name is required; version and         *)
(* description are Optional[str] with defaults "1.0.0" and "".  A member   *)
(* the body leaves out takes its default; Optional admits an explicit      *)
(* null, which becomes None; name admits any string, the empty one too.    *)
(***************************************************************************)
NoRequest == [t |-> "none", name |-> "", version |-> None, description |-> None]

\* OptionalStr with the default dropped: a member left out stays None
OptionalStr_no_default(member, default) ==
    CASE member.t = "missing" -> None
      [] member.t = "null"    -> None
      [] member.t = "str"     -> member

OptionalStr(member, default) ==
    CASE member.t = "missing" -> Str(default)
      [] member.t = "null"    -> None
      [] member.t = "str"     -> member

PlatformRequest(obj) ==
    [t |-> "PlatformRequest",
     name |-> obj.name.v,
     version |-> OptionalStr(obj.version, "1.0.0"),
     description |-> OptionalStr(obj.description, "")]

\* One entry of the "detail" list of a validation error.  The msg and type texts
\* are those of the validation library generation whose .dict() line 39 calls;
\* no property below rests on them.
ErrorEntry(loc, msg, type) ==
    Dict(<< <<"loc", List(loc)>>, <<"msg", Str(msg)>>, <<"type", Str(type)>> >>)

\* ValidationErrors with name declared Optional: a body without name conforms
ValidationErrors_name_optional(body) ==
    CASE body.kind = "absent" ->
           << ErrorEntry(<<Str("body")>>, "field required", "value_error.missing") >>
      [] body.kind = "malformed" ->
           << ErrorEntry(<<Str("body")>>, "Expecting value", "value_error.jsondecode") >>
      [] body.kind = "json" /\ body.value.t # "object" ->
           << ErrorEntry(<<Str("body")>>, "value is not a valid dict", "type_error.dict") >>
      [] OTHER -> <<>>

\* ValidationErrors with name constrained to min_length=1
ValidationErrors_min_length(body) ==
    CASE body.kind = "absent" ->
           << ErrorEntry(<<Str("body")>>, "field required", "value_error.missing") >>
      [] body.kind = "malformed" ->
           << ErrorEntry(<<Str("body")>>, "Expecting value", "value_error.jsondecode") >>
      [] body.kind = "json" /\ body.value.t # "object" ->
           << ErrorEntry(<<Str("body")>>, "value is not a valid dict", "type_error.dict") >>
      [] body.kind = "json" /\ body.value.t = "object" /\ body.value.name.t = "missing" ->
           << ErrorEntry(<<Str("body"), Str("name")>>, "field required", "value_error.missing") >>
      [] body.kind = "json" /\ body.value.t = "object" /\ body.value.name.t = "null" ->
           << ErrorEntry(<<Str("body"), Str("name")>>, "none is not an allowed value",
                         "type_error.none.not_allowed") >>
      [] body.kind = "json" /\ body.value.t = "object" /\ body.value.name = Str("") ->
           << ErrorEntry(<<Str("body"), Str("name")>>,
                         "ensure this value has at least 1 characters",
                         "value_error.any_str.min_length") >>
      [] OTHER -> <<>>

\* The errors the request body produces against PlatformRequest; <<>> when it conforms.
ValidationErrors(body) ==
    CASE body.kind = "absent" ->
           << ErrorEntry(<<Str("body")>>, "field required", "value_error.missing") >>
      [] body.kind = "malformed" ->
           << ErrorEntry(<<Str("body")>>, "Expecting value", "value_error.jsondecode") >>
      [] body.kind = "json" /\ body.value.t # "object" ->
           << ErrorEntry(<<Str("body")>>, "value is not a valid dict", "type_error.dict") >>
      [] body.kind = "json" /\ body.value.t = "object" /\ body.value.name.t = "missing" ->
           << ErrorEntry(<<Str("body"), Str("name")>>, "field required", "value_error.missing") >>
      [] body.kind = "json" /\ body.value.t = "object" /\ body.value.name.t = "null" ->
           << ErrorEntry(<<Str("body"), Str("name")>>, "none is not an allowed value",
                         "type_error.none.not_allowed") >>
      [] OTHER -> <<>>

(***************************************************************************)
(* The endpoint functions                                                  *)
(***************************************************************************)
health == Dict(<< <<"status", Str("healthy")>>, <<"service", Str("example-python-lambda")>> >>)

\* root keeping a cold-start flag across the invocations of a process
root_cold_start ==
    Dict(<< <<"message", Str(IF inv = 1 THEN "Hello from Python Lambda! (cold start)"
                             ELSE "Hello from Python Lambda!")>> >>)

root == Dict(<< <<"message", Str("Hello from Python Lambda!")>> >>)

\* response_message with "is not None" written where the code tests truthiness
response_message_not_none(req) ==
    LET base == "Welcome to " \o req.name \o "!"
        withVersion ==
            IF req.version.t = "str"
            THEN base \o " Running version " \o req.version.v \o "."
            ELSE base
    IN  IF req.description.t = "str"
        THEN withVersion \o " Description: " \o req.description.v
        ELSE withVersion

\* lines 42-48: the message, built base -> version clause -> description clause
response_message(req) ==
    LET base == "Welcome to " \o req.name \o "!"
        withVersion ==
            IF Truthy(req.version)
            THEN base \o " Running version " \o req.version.v \o "."
            ELSE base
    IN  IF Truthy(req.description)
        THEN withVersion \o " Description: " \o req.description.v
        ELSE withVersion

\* lines 51-65
platform_info(req) ==
    Dict(<< <<"message", Str(response_message(req))>>,
            <<"platform", Dict(<< <<"name", Str(req.name)>>,
                                  <<"version", req.version>>,
                                  <<"description", req.description>>,
                                  <<"status", Str("active")>>,
                                  <<"uptime", Str("99.9%")>> >>)>>,
            <<"metadata", Dict(<< <<"processed_at", Str("2024-01-01T00:00:00Z")>>,
                                  <<"lambda_version", Str("python3.12")>>,
                                  <<"region", Str("us-east-1")>> >>)>> >>)

(***************************************************************************)
(* What an endpoint call, or the framework in its place, produces          *)
(***************************************************************************)
NoResult == [kind |-> "none", status |-> 0, value |-> None, text |-> ""]
Return(value) == [kind |-> "return", status |-> 200, value |-> value, text |-> ""]
Raise(text) == [kind |-> "raise", status |-> 0, value |-> None, text |-> text]
HTTPException(status, detail) ==
    [kind |-> "http_exception", status |-> status, value |-> None, text |-> detail]
RequestValidationError(errors) ==
    [kind |-> "validation_error", status |-> 422, value |-> List(errors), text |-> ""]
\* The location is kept as the path; the framework sends it as an absolute URL.
RedirectResponse(url) == [kind |-> "redirect", status |-> 307, value |-> None, text |-> url]
HTMLResponse(page) == [kind |-> "html", status |-> 200, value |-> None, text |-> page]

\* The exceptions the body of platform() is taken to be able to raise.
Faults == {"boom", "disk full"}
NoFault == ""

\* The page the interactive-documentation route serves, abridged.
SwaggerPage == "<!DOCTYPE html><html><head><title>FastAPI - Swagger UI</title></head></html>"

(***************************************************************************)
(* app = FastAPI(): the route table, in registration order.  FastAPI()     *)
(* registers its documentation routes first; the decorators of lines 23,   *)
(* 29 and 35 add one route each, bound to exactly one method.              *)
(***************************************************************************)
Route_(path, methods, endpoint) == [path |-> path, methods |-> methods, endpoint |-> endpoint]

app ==
    << Route_("/openapi.json", {"GET", "HEAD"}, "openapi"),
       Route_("/docs", {"GET", "HEAD"}, "swagger_ui_html"),
       Route_("/docs/oauth2-redirect", {"GET", "HEAD"}, "swagger_ui_redirect"),
       Route_("/redoc", {"GET", "HEAD"}, "redoc_html"),
       Route_("/health", {"GET"}, "health"),
       Route_("/", {"GET"}, "root"),
       Route_("/platform", {"POST"}, "platform") >>

RoutePaths == {app[i].path : i \in 1..Len(app)}

Min(S) == CHOOSE x \in S : \A y \in S : x <= y

\* The path with its trailing slash removed, or added when it has none.
ToggleSlash(path) ==
    IF \E r \in RoutePaths \cup Paths : path = r \o "/"
    THEN CHOOSE r \in RoutePaths \cup Paths : path = r \o "/"
    ELSE path \o "/"

NoMatch == [kind |-> "none", endpoint |-> "none", url |-> ""]

\* resolve matching on the path alone
resolve_any_method(method, path) ==
    LET full == {i \in 1..Len(app) : app[i].path = path}
    IN  IF full # {} THEN [kind |-> "full", endpoint |-> app[Min(full)].endpoint, url |-> ""]
        ELSE IF path # "/" /\ ToggleSlash(path) \in RoutePaths
             THEN [kind |-> "redirect", endpoint |-> "none", url |-> ToggleSlash(path)]
        ELSE NoMatch

\* The router: the first route matching path and method; else the first route
\* matching the path alone; else a redirect when the path with its trailing slash
\* toggled matches a route; else nothing.
resolve(method, path) ==
    LET full == {i \in 1..Len(app) : app[i].path = path /\ method \in app[i].methods}
        partial == {i \in 1..Len(app) : app[i].path = path /\ method \notin app[i].methods}
    IN  IF full # {} THEN [kind |-> "full", endpoint |-> app[Min(full)].endpoint, url |-> ""]
        ELSE IF partial # {}
             THEN [kind |-> "partial", endpoint |-> app[Min(partial)].endpoint, url |-> ""]
        ELSE IF path # "/" /\ ToggleSlash(path) \in RoutePaths
             THEN [kind |-> "redirect", endpoint |-> "none", url |-> ToggleSlash(path)]
        ELSE NoMatch

(***************************************************************************)
(* The envelope lambda_handler returns                                     *)
(***************************************************************************)
NoResponse == [statusCode |-> 0, headers |-> {}, body |-> "", isBase64Encoded |-> FALSE]

Envelope(status, headers, body) ==
    [statusCode |-> status, headers |-> headers, body |-> body, isBase64Encoded |-> FALSE]

JSONResponse(status, content) ==
    Envelope(status, {<<"content-type", "application/json">>}, dumps(content))

\* ServerError in debug mode: the exception text goes into the body
ServerError_debug(text) ==
    Envelope(500, {<<"content-type", "text/plain; charset=utf-8">>},
             "Internal Server Error: " \o text)

\* An exception that escaped the endpoint: the body is the same for every exception.
ServerError(text) ==
    Envelope(500, {<<"content-type", "text/plain; charset=utf-8">>}, "Internal Server Error")

\* Encode answering a validation error with the bare reason phrase
Encode_plain_422(res) ==
    CASE res.kind = "return" -> JSONResponse(200, res.value)
      [] res.kind = "http_exception" ->
           JSONResponse(res.status, Dict(<< <<"detail", Str(res.text)>> >>))
      [] res.kind = "validation_error" ->
           Envelope(422, {<<"content-type", "text/plain; charset=utf-8">>},
                    "Unprocessable Entity")
      [] res.kind = "redirect" -> Envelope(307, {<<"location", res.text>>}, "")
      [] res.kind = "html" ->
           Envelope(200, {<<"content-type", "text/html; charset=utf-8">>}, res.text)
      [] res.kind = "raise" -> ServerError(res.text)

Encode(res) ==
    CASE res.kind = "return" -> JSONResponse(200, res.value)
      [] res.kind = "http_exception" ->
           JSONResponse(res.status, Dict(<< <<"detail", Str(res.text)>> >>))
      [] res.kind = "validation_error" ->
           JSONResponse(422, Dict(<< <<"detail", res.value>> >>))
      [] res.kind = "redirect" -> Envelope(307, {<<"location", res.text>>}, "")
      [] res.kind = "html" ->
           Envelope(200, {<<"content-type", "text/html; charset=utf-8">>}, res.text)
      [] res.kind = "raise" -> ServerError(res.text)

(***************************************************************************)
(* Logging: logger = logging.getLogger(); logger.setLevel(logging.INFO),   *)
(* so INFO and ERROR records of the module are both emitted.               *)
(***************************************************************************)
Record(level, name, msg, n) == [level |-> level, name |-> name, msg |-> msg, inv |-> n]

\* platform with the except clause re-raising without logging
platform_silent(req, fault, n) ==
    IF fault = NoFault
    THEN [result |-> Return(platform_info(req)),
          records |-> << Record("INFO", "root", "Processing platform request", n) >>]
    ELSE [result |-> Raise(fault), records |-> <<>>]

\* def platform(request), lines 36-71: what it returns or raises, and the records
\* it emits on the way.  A fault is an exception raised inside the try block by
\* line 39 (the only statement that calls out of the function); the except clause
\* logs it with logger.exception and re-raises it.
platform(req, fault, n) ==
    IF fault = NoFault
    THEN [result |-> Return(platform_info(req)),
          records |-> << Record("INFO", "root", "Processing platform request", n) >>]
    ELSE [result |-> Raise(fault),
          records |-> << Record("ERROR", "root", "Error processing platform request", n) >>]

\* The adapter logs an exception that escapes the application.
AdapterRecords(res, n) ==
    IF res.kind = "raise"
    THEN << Record("ERROR", "mangum.http", "An error occurred running the application.", n) >>
    ELSE <<>>

(***************************************************************************)
(* State machine                                                           *)
(***************************************************************************)
NoRef == [set |-> FALSE, event |-> NoEvent, kind |-> "", response |-> NoResponse]

Init ==
    /\ pc = "Idle"
    /\ inv = 0
    /\ event = NoEvent
    /\ match = NoMatch
    /\ request = NoRequest
    /\ invoked = "none"
    /\ result = NoResult
    /\ response = NoResponse
    /\ log = <<>>
    /\ ref = NoRef

\* lambda_handler(event, context): the host hands over one event; everything of
\* the previous invocation is gone.
lambda_handler(e) ==
    /\ pc \in {"Idle", "Completed"}
    /\ inv < MaxInvocations
    /\ inv' = inv + 1
    /\ event' = e
    /\ match' = NoMatch
    /\ request' = NoRequest
    /\ invoked' = "none"
    /\ result' = NoResult
    /\ response' = NoResponse
    /\ pc' = "Routing"
    /\ UNCHANGED <<log, ref>>

\* The router picks the route; without a full match the framework answers itself.
Route ==
    /\ pc = "Routing"
    /\ match' = resolve(event.method, event.path)
    /\ CASE match'.kind = "full" /\ match'.endpoint = "platform" ->
              pc' = "Validating" /\ UNCHANGED result
         [] match'.kind = "full" /\ match'.endpoint # "platform" ->
              pc' = "Handling" /\ UNCHANGED result
         [] match'.kind = "partial" ->
              pc' = "Responding" /\ result' = HTTPException(405, "Method Not Allowed")
         [] match'.kind = "redirect" ->
              pc' = "Responding" /\ result' = RedirectResponse(match'.url)
         [] match'.kind = "none" ->
              pc' = "Responding" /\ result' = HTTPException(404, "Not Found")
    /\ UNCHANGED <<inv, event, request, invoked, response, log, ref>>

\* platform(request: PlatformRequest): the body is validated before the call.
Validate ==
    /\ pc = "Validating"
    /\ LET errors == ValidationErrors(event.body)
       IN  IF errors = <<>>
           THEN /\ request' = PlatformRequest(event.body.value)
                /\ pc' = "Handling"
                /\ UNCHANGED result
           ELSE /\ result' = RequestValidationError(errors)
                /\ pc' = "Responding"
                /\ UNCHANGED request
    /\ UNCHANGED <<inv, event, match, invoked, response, log, ref>>

\* The matched endpoint function runs.
Endpoint ==
    /\ pc = "Handling"
    /\ invoked' = match.endpoint
    /\ CASE match.endpoint = "health" -> result' = Return(health) /\ UNCHANGED log
         [] match.endpoint = "root" -> result' = Return(root) /\ UNCHANGED log
         [] match.endpoint = "platform" ->
              \E fault \in Faults \cup {NoFault} :
                 LET out == platform(request, fault, inv)
                 IN  result' = out.result /\ log' = log \o out.records
         [] match.endpoint = "swagger_ui_html" ->
              result' = HTMLResponse(SwaggerPage) /\ UNCHANGED log
    /\ pc' = "Responding"
    /\ UNCHANGED <<inv, event, match, request, response, ref>>

\* Deliver letting an exception of the application escape: no envelope is built
Deliver_escaping ==
    /\ pc = "Responding"
    /\ response' = IF result.kind = "raise" THEN NoResponse ELSE Encode(result)
    /\ log' = log
    /\ pc' = "Completed"
    /\ UNCHANGED <<inv, event, match, request, invoked, result>>

\* The adapter turns what the application produced into the envelope and returns it.
Deliver ==
    /\ pc = "Responding"
    /\ response' = Encode(result)
    /\ log' = log \o AdapterRecords(result, inv)
    /\ pc' = "Completed"
    /\ UNCHANGED <<inv, event, match, request, invoked, result>>

Respond == Deliver /\ UNCHANGED ref

\* Respond, with the first completed invocation remembered.
RespondRecorded ==
    /\ Deliver
    /\ ref' = IF ref.set THEN ref
              ELSE [set |-> TRUE, event |-> event, kind |-> result.kind, response |-> response']

Step == Route \/ Validate \/ Endpoint \/ Respond

Next == (\E e \in Events : lambda_handler(e)) \/ Step

Spec == Init /\ [][Next]_vars

\* An invocation runs synchronously to its end once the host has started it.
FairSpec == Spec /\ WF_vars(Step)

RecordedStep == Route \/ Validate \/ Endpoint \/ RespondRecorded

RecordedNext == (\E e \in Events : lambda_handler(e)) \/ RecordedStep

RecordedSpec == Init /\ [][RecordedNext]_vars

(***************************************************************************)
(* Vocabulary of the properties                                            *)
(***************************************************************************)
\* The dispatcher state of the specification: Idle, Resolving, Completed.
DispatcherState ==
    CASE pc = "Idle" -> "Idle"
      [] pc = "Completed" -> "Completed"
      [] OTHER -> "Resolving"

Completed == pc = "Completed"

IsPlatformPost == event.method = "POST" /\ event.path = "/platform"

HasObjectBody == event.body.kind = "json" /\ event.body.value.t = "object"

AppRoutes == { <<"GET", "/health">>, <<"GET", "/">>, <<"POST", "/platform">> }
AppPaths == {"/health", "/", "/platform"}
AppEndpoints == {"health", "root", "platform"}
DocPaths == {"/openapi.json", "/docs", "/docs/oauth2-redirect", "/redoc"}
SlashVariants == {p \o "/" : p \in (AppPaths \cup DocPaths) \ {"/"}}

JsonType == <<"content-type", "application/json">>

\* The JSON texts over the strings of the model: every document the application
\* can serialise.
JsonTexts ==
    {dumps(health), dumps(root)}
    \cup {dumps(Dict(<< <<"detail", Str(d)>> >>)) : d \in {"Not Found", "Method Not Allowed"}}
    \cup {dumps(Dict(<< <<"detail", List(ValidationErrors(b))>> >>)) : b \in Bodies}
    \cup {dumps(platform_info(PlatformRequest(o))) : o \in {x \in Objects : x.name.t = "str"}}

WellFormedJson(body) == body \in JsonTexts

\* The outcome an envelope stands for.
Outcomes(resp) ==
    {o \in {"success", "Redirect", "NotFound", "MethodNotAllowed", "ValidationFailed",
            "HandlerFailed"} :
        \/ o = "success" /\ resp.statusCode = 200
        \/ o = "Redirect" /\ resp.statusCode = 307
        \/ o = "NotFound" /\ resp.statusCode = 404
        \/ o = "MethodNotAllowed" /\ resp.statusCode = 405
        \/ o = "ValidationFailed" /\ resp.statusCode = 422
        \/ o = "HandlerFailed" /\ resp.statusCode = 500}

HandlerErrorLogged ==
    \E i \in 1..Len(log) :
        /\ log[i].level = "ERROR" /\ log[i].name = "root" /\ log[i].inv = inv
        /\ \A j \in 1..Len(log) :
              (log[j].name = "mangum.http" /\ log[j].inv = inv) => i < j

(***************************************************************************)
(* C1: the message platform() returns is "Welcome to <name>!", then        *)
(* " Running version <version>." exactly when version is a non-empty       *)
(* string, then " Description: <description>" exactly when description is  *)
(* a non-empty string, in that order.                                      *)
(***************************************************************************)
C1_VersionClause ==
    IF request.version.t = "str" /\ request.version.v # ""
    THEN " Running version " \o request.version.v \o "."
    ELSE ""

C1_DescriptionClause ==
    IF request.description.t = "str" /\ request.description.v # ""
    THEN " Description: " \o request.description.v
    ELSE ""

C1_MessageOrder ==
    (invoked = "platform" /\ result.kind = "return") =>
        /\ Get(result.value, "message")
             = Str("Welcome to " \o request.name \o "!" \o C1_VersionClause \o C1_DescriptionClause)
        /\ event.body = JsonBody(JsonObject(Str("Acme"), Missing, Missing))
             => Get(result.value, "message") = Str("Welcome to Acme! Running version 1.0.0.")
        /\ event.body = JsonBody(JsonObject(Str("Acme"), Str(""), Str("x")))
             => Get(result.value, "message") = Str("Welcome to Acme! Description: x")

C1_Witness ==
    /\ Completed /\ invoked = "platform" /\ response.statusCode = 200
    /\ event.body = JsonBody(JsonObject(Str("Acme"), Str(""), Str("x")))
    /\ Get(result.value, "message") = Str("Welcome to Acme! Description: x")

C3_Rejected ==
    \/ event.body.kind \in {"absent", "malformed"}
    \/ HasObjectBody /\ event.body.value.name.t = "missing"

C3_ValidationFirst ==
    (IsPlatformPost /\ C3_Rejected) =>
        /\ invoked = "none"
        /\ request = NoRequest
        /\ \A i \in 1..Len(log) : log[i].inv # inv
        /\ Completed =>
              /\ response.statusCode = 422
              /\ JsonType \in response.headers
              /\ result.kind = "validation_error" /\ Len(result.value.v) >= 1
              /\ \A i \in 1..Len(result.value.v) :
                    Get(result.value.v[i], "loc").v[1] = Str("body")
              /\ response.body = "{\"detail\":" \o dumps(result.value) \o "}"
              /\ response.body # ""

C3_Witness ==
    /\ Completed /\ IsPlatformPost
    /\ event.body = JsonBody(JsonObject(Missing, Str("2.0"), Missing))
    /\ response.statusCode = 422

(***************************************************************************)
(* C4 as stated: the version and description platform() sees are strings,  *)
(* never null.                                                             *)
(***************************************************************************)
C4_Original ==
    invoked = "platform" => request.version.t = "str" /\ request.description.t = "str"

(***************************************************************************)
(* C4 amended: a member the body omits holds its default ("1.0.0", ""), a  *)
(* member given as a string holds that string, and a member given as an    *)
(* explicit JSON null is accepted and reaches platform() as None, which    *)
(* the 200 response echoes as null in platform.version /                   *)
(* platform.description.                                                   *)
(***************************************************************************)
C4_Member(member, default, seen, echoed) ==
    /\ member.t = "missing" => seen = Str(default)
    /\ member.t = "str" => seen = member
    /\ member.t = "null" => seen = None
    /\ result.kind = "return" => echoed = seen

C4_DefaultsAndNull ==
    invoked = "platform" =>
        /\ C4_Member(event.body.value.version, "1.0.0", request.version,
                     IF result.kind = "return"
                     THEN Get(Get(result.value, "platform"), "version") ELSE None)
        /\ C4_Member(event.body.value.description, "", request.description,
                     IF result.kind = "return"
                     THEN Get(Get(result.value, "platform"), "description") ELSE None)
        /\ (Completed /\ result.kind = "return"
              /\ event.body = JsonBody(JsonObject(Str("Acme"), Null, Missing))) =>
              response.body = "{\"message\":\"Welcome to Acme!\",\"platform\":{\"name\":\"Acme\",\"version\":null,\"description\":\"\",\"status\":\"active\",\"uptime\":\"99.9%\"},\"metadata\":{\"processed_at\":\"2024-01-01T00:00:00Z\",\"lambda_version\":\"python3.12\",\"region\":\"us-east-1\"}}"

C4_Witness ==
    /\ Completed /\ invoked = "platform" /\ response.statusCode = 200
    /\ event.body = JsonBody(JsonObject(Str("Acme"), Null, Missing))
    /\ request.version = None /\ request.description = Str("")

(***************************************************************************)
(* C5 as stated: a POST /platform whose name is the empty string is        *)
(* rejected with 422 and never reaches platform().                         *)
(***************************************************************************)
C5_Original ==
    (IsPlatformPost /\ HasObjectBody /\ event.body.value.name = Str("")) =>
        /\ invoked # "platform"
        /\ Completed => response.statusCode = 422

(***************************************************************************)
(* C5 amended: every request that reaches platform() carries the string    *)
(* the body gave as name; a missing or null name is rejected with 422,     *)
(* while the empty string is accepted as a name: the request reaches       *)
(* platform() and is answered 200 with a message starting "Welcome to !"   *)
(* (500 when the handler fails), never 422.                                *)
(***************************************************************************)
C5_NameIsAString ==
    /\ invoked = "platform" =>
          /\ HasObjectBody /\ event.body.value.name.t = "str"
          /\ request.t = "PlatformRequest" /\ request.name = event.body.value.name.v
    /\ (Completed /\ IsPlatformPost /\ HasObjectBody /\ event.body.value.name.t # "str") =>
          response.statusCode = 422 /\ invoked = "none"
    /\ (Completed /\ IsPlatformPost /\ HasObjectBody /\ event.body.value.name = Str("")) =>
          /\ invoked = "platform"
          /\ response.statusCode \in {200, 500}
          /\ result.kind = "return" =>
                /\ response.statusCode = 200
                /\ Get(result.value, "message")
                     = Str("Welcome to !" \o C1_VersionClause \o C1_DescriptionClause)

C5_Witness ==
    /\ Completed /\ IsPlatformPost /\ HasObjectBody
    /\ event.body.value.name = Str("")
    /\ invoked = "platform" /\ request.name = "" /\ response.statusCode = 200

C7_LoggedBeforeRaise ==
    /\ result.kind = "raise" => HandlerErrorLogged
    /\ response.statusCode = 500 => HandlerErrorLogged

C7_Witness ==
    /\ pc = "Responding" /\ result.kind = "raise" /\ response = NoResponse
    /\ HandlerErrorLogged

C9_SameEventSameEnvelope ==
    /\ (Completed /\ ref.set /\ event = ref.event /\ result.kind = ref.kind) =>
          response = ref.response
    /\ pc = "Routing" =>
          /\ match = NoMatch /\ request = NoRequest /\ invoked = "none"
          /\ result = NoResult /\ response = NoResponse

C9_Witness ==
    /\ Completed /\ inv = 3 /\ ref.set /\ event = ref.event /\ result.kind = ref.kind
    /\ event.method = "GET" /\ event.path = "/"
    /\ \E i \in 1..Len(log) : log[i].inv = 2 /\ log[i].level = "ERROR"
    /\ response = ref.response

C10_Transition ==
    /\ DispatcherState = "Idle" => DispatcherState' \in {"Idle", "Resolving"}
    /\ DispatcherState = "Resolving" =>
          DispatcherState' \in {"Resolving", "Completed"} /\ inv' = inv /\ event' = event
    /\ DispatcherState = "Completed" =>
          \/ DispatcherState' = "Completed" /\ response' = response /\ inv' = inv
          \/ DispatcherState' = "Resolving" /\ inv' = inv + 1 /\ response' = NoResponse
    /\ response # NoResponse => (response' = response \/ inv' = inv + 1)

====
